---- MODULE Spec2Model ----
(***************************************************************************)
(* email_reply_parser: EmailReplyParser / EmailMessage / Fragment.         *)
(*                                                                         *)
(* A text is a sequence of characters; a character is a one-character      *)
(* string, and a character that TLA+ cannot write is named by its code     *)
(* ("x07" is BEL).  The regular expressions of EmailMessage are operators  *)
(* on such sequences, written from the patterns and from the way the code  *)
(* calls them (match is anchored at the start, search is not).             *)
(***************************************************************************)
EXTENDS Integers, Sequences, FiniteSets, TLC

(***************************************************************************)
(* Characters (code points 0..255).                                        *)
(***************************************************************************)
CHR ==
  <<
    "x00", "x01", "x02", "x03", "x04", "x05", "x06", "x07", "x08", "\t",
    "\n", "x0b", "\f", "\r", "x0e", "x0f", "x10", "x11", "x12", "x13",
    "x14", "x15", "x16", "x17", "x18", "x19", "x1a", "x1b", "x1c", "x1d",
    "x1e", "x1f", " ", "!", "\"", "#", "$", "%", "&", "'", "(", ")", "*",
    "+", ",", "-", ".", "/", "0", "1", "2", "3", "4", "5", "6", "7", "8",
    "9", ":", ";", "<", "=", ">", "?", "@", "A", "B", "C", "D", "E", "F",
    "G", "H", "I", "J", "K", "L", "M", "N", "O", "P", "Q", "R", "S", "T",
    "U", "V", "W", "X", "Y", "Z", "[", "\\", "]", "^", "_", "x60", "a", "b",
    "c", "d", "e", "f", "g", "h", "i", "j", "k", "l", "m", "n", "o", "p",
    "q", "r", "s", "t", "u", "v", "w", "x", "y", "z", "{", "|", "}", "~",
    "x7f", "x80", "x81", "x82", "x83", "x84", "x85", "x86", "x87", "x88",
    "x89", "x8a", "x8b", "x8c", "x8d", "x8e", "x8f", "x90", "x91", "x92",
    "x93", "x94", "x95", "x96", "x97", "x98", "x99", "x9a", "x9b", "x9c",
    "x9d", "x9e", "x9f", "xa0", "xa1", "xa2", "xa3", "xa4", "xa5", "xa6",
    "xa7", "xa8", "xa9", "xaa", "xab", "xac", "xad", "xae", "xaf", "xb0",
    "xb1", "xb2", "xb3", "xb4", "xb5", "xb6", "xb7", "xb8", "xb9", "xba",
    "xbb", "xbc", "xbd", "xbe", "xbf", "xc0", "xc1", "xc2", "xc3", "xc4",
    "xc5", "xc6", "xc7", "xc8", "xc9", "xca", "xcb", "xcc", "xcd", "xce",
    "xcf", "xd0", "xd1", "xd2", "xd3", "xd4", "xd5", "xd6", "xd7", "xd8",
    "xd9", "xda", "xdb", "xdc", "xdd", "xde", "xdf", "xe0", "xe1", "xe2",
    "xe3", "xe4", "xe5", "xe6", "xe7", "xe8", "xe9", "xea", "xeb", "xec",
    "xed", "xee", "xef", "xf0", "xf1", "xf2", "xf3", "xf4", "xf5", "xf6",
    "xf7", "xf8", "xf9", "xfa", "xfb", "xfc", "xfd", "xfe", "xff"
  >>

Whitespace ==
  {
    "\t", "\n", "x0b", "\f", "\r", "x1c", "x1d", "x1e", "x1f", " ", "x85",
    "xa0"
  }

WordChars ==
  {
    "0", "1", "2", "3", "4", "5", "6", "7", "8", "9", "A", "B", "C", "D",
    "E", "F", "G", "H", "I", "J", "K", "L", "M", "N", "O", "P", "Q", "R",
    "S", "T", "U", "V", "W", "X", "Y", "Z", "_", "a", "b", "c", "d", "e",
    "f", "g", "h", "i", "j", "k", "l", "m", "n", "o", "p", "q", "r", "s",
    "t", "u", "v", "w", "x", "y", "z", "xaa", "xb2", "xb3", "xb5", "xb9",
    "xba", "xbc", "xbd", "xbe", "xc0", "xc1", "xc2", "xc3", "xc4", "xc5",
    "xc6", "xc7", "xc8", "xc9", "xca", "xcb", "xcc", "xcd", "xce", "xcf",
    "xd0", "xd1", "xd2", "xd3", "xd4", "xd5", "xd6", "xd8", "xd9", "xda",
    "xdb", "xdc", "xdd", "xde", "xdf", "xe0", "xe1", "xe2", "xe3", "xe4",
    "xe5", "xe6", "xe7", "xe8", "xe9", "xea", "xeb", "xec", "xed", "xee",
    "xef", "xf0", "xf1", "xf2", "xf3", "xf4", "xf5", "xf6", "xf8", "xf9",
    "xfa", "xfb", "xfc", "xfd", "xfe", "xff"
  }

ASCIILETTERS ==
  {
    "A", "B", "C", "D", "E", "F", "G", "H", "I", "J", "K", "L", "M", "N",
    "O", "P", "Q", "R", "S", "T", "U", "V", "W", "X", "Y", "Z", "a", "b",
    "c", "d", "e", "f", "g", "h", "i", "j", "k", "l", "m", "n", "o", "p",
    "q", "r", "s", "t", "u", "v", "w", "x", "y", "z"
  }

DIGITS == <<"0", "1", "2", "3", "4", "5", "6", "7", "8", "9">>

OCTDIGITS == {"0", "1", "2", "3", "4", "5", "6", "7"}

IsDigit(c) == \E d \in 1..10 : DIGITS[d] = c

DigitVal(c) == (CHOOSE d \in 1..10 : DIGITS[d] = c) - 1

(***************************************************************************)
(* Strings.                                                                *)
(***************************************************************************)
NL == "\n"

BS == "\\"

StartsAt(s, i, p) ==
  /\ i >= 1
  /\ i + Len(p) - 1 <= Len(s)
  /\ \A k \in 1..Len(p) : s[i + k - 1] = p[k]

Reverse(s) == [i \in 1..Len(s) |-> s[Len(s) + 1 - i]]

RECURSIVE Join(_, _)
Join(sep, parts) ==
  IF parts = <<>> THEN <<>>
  ELSE IF Len(parts) = 1 THEN parts[1]
  ELSE parts[1] \o sep \o Join(sep, Tail(parts))

RECURSIVE Split(_, _)
Split(s, sep) ==
  IF \E i \in 1..Len(s) : s[i] = sep
  THEN LET i == CHOOSE i \in 1..Len(s) :
                  s[i] = sep /\ \A j \in 1..(i - 1) : s[j] # sep
       IN  <<SubSeq(s, 1, i - 1)>> \o Split(SubSeq(s, i + 1, Len(s)), sep)
  ELSE <<s>>

Strip(s) ==
  IF \A i \in 1..Len(s) : s[i] \in Whitespace THEN <<>>
  ELSE LET a == CHOOSE i \in 1..Len(s) :
                  s[i] \notin Whitespace /\ \A j \in 1..(i - 1) : s[j] \in Whitespace
           b == CHOOSE i \in 1..Len(s) :
                  s[i] \notin Whitespace /\ \A j \in (i + 1)..Len(s) : s[j] \in Whitespace
       IN  SubSeq(s, a, b)

\* text.replace('\r\n', '\n')
RECURSIVE ReplaceCRLF(_)
ReplaceCRLF(s) ==
  IF \E i \in 1..(Len(s) - 1) : s[i] = "\r" /\ s[i + 1] = NL
  THEN LET i == CHOOSE i \in 1..(Len(s) - 1) :
                  /\ s[i] = "\r" /\ s[i + 1] = NL
                  /\ \A j \in 1..(i - 1) : ~(s[j] = "\r" /\ s[j + 1] = NL)
       IN  SubSeq(s, 1, i - 1) \o <<NL>> \o ReplaceCRLF(SubSeq(s, i + 2, Len(s)))
  ELSE s

RemoveNewlines(s) == SelectSeq(s, LAMBDA c : c # NL)

(***************************************************************************)
(* The regular expressions of EmailMessage.                                *)
(***************************************************************************)
On == <<"O", "n">>

Wrote == <<"w", "r", "o", "t", "e", ":">>

SentFromMy == <<"S", "e", "n", "t", " ", "f", "r", "o", "m", " ", "m", "y", " ">>

HeaderWords ==
  { <<"F", "r", "o", "m">>, <<"S", "e", "n", "t">>, <<"T", "o">>,
    <<"S", "u", "b", "j", "e", "c", "t">> }

\* SIG_REGEX with \w- in the place of -\w
SIG_REGEXWordBeforeHyphen(s) ==
  \/ StartsAt(s, 1, <<"-", "-">>)
  \/ StartsAt(s, 1, <<"_", "_">>)
  \/ Len(s) >= 2 /\ s[1] \in WordChars /\ s[2] = "-"
  \/ StartsAt(s, 1, SentFromMy) /\ Len(s) > Len(SentFromMy)
       /\ s[Len(SentFromMy) + 1] \in WordChars

\* SIG_REGEX.match(s): (--|__|-\w)|(^Sent from my (\w+\s*){1,3})
SIG_REGEX(s) ==
  \/ StartsAt(s, 1, <<"-", "-">>)
  \/ StartsAt(s, 1, <<"_", "_">>)
  \/ Len(s) >= 2 /\ s[1] = "-" /\ s[2] \in WordChars
  \/ StartsAt(s, 1, SentFromMy) /\ Len(s) > Len(SentFromMy)
       /\ s[Len(SentFromMy) + 1] \in WordChars

\* QUOTE_HDR_REGEX.match(line): On.*wrote:$
QUOTE_HDR_REGEX(line) ==
  /\ StartsAt(line, 1, On)
  /\ \E k \in 3..Len(line) :
       /\ StartsAt(line, k, Wrote)
       /\ \A j \in 3..(k - 1) : line[j] # NL
       /\ \/ k + 5 = Len(line)
          \/ k + 6 = Len(line) /\ line[Len(line)] = NL

\* QUOTED_REGEX.match(line): (>+)
QUOTED_REGEX(line) == Len(line) >= 1 /\ line[1] = ">"

\* HEADER_REGEX.match(line): ^\*?(From|Sent|To|Subject):\*? .+
HEADER_REGEX(line) ==
  \E a \in 0..1, b \in 0..1, w \in HeaderWords :
    LET colon == 1 + a + Len(w)
        space == colon + b + 1
    IN  /\ a = 1 => StartsAt(line, 1, <<"*">>)
        /\ StartsAt(line, 1 + a, w)
        /\ StartsAt(line, colon, <<":">>)
        /\ b = 1 => StartsAt(line, colon + 1, <<"*">>)
        /\ StartsAt(line, space, <<" ">>)
        /\ space + 1 <= Len(line)
        /\ line[space + 1] # NL

\* The lookahead of _MULTI_QUOTE_HDR_REGEX at position i: On.*On\s.+?wrote:
\* (DOTALL: the dot matches a newline too).
MultiLookahead(s, i) ==
  /\ StartsAt(s, i, On)
  /\ \E j \in (i + 2)..Len(s) :
       /\ StartsAt(s, j, On)
       /\ j + 2 <= Len(s)
       /\ s[j + 2] \in Whitespace
       /\ \E k \in (j + 4)..Len(s) : StartsAt(s, k, Wrote)

\* Where "wrote:" starts in the match of (On\s(.+?)wrote:) at position i, 0
\* when the pattern does not match there. .+? is lazy: the first "wrote:"
\* that leaves it one character.
MultiWroteAt(s, i) ==
  IF /\ ~MultiLookahead(s, i)
     /\ StartsAt(s, i, On)
     /\ i + 2 <= Len(s)
     /\ s[i + 2] \in Whitespace
     /\ \E k \in (i + 4)..Len(s) : StartsAt(s, k, Wrote)
  THEN CHOOSE k \in (i + 4)..Len(s) :
         StartsAt(s, k, Wrote) /\ \A m \in (i + 4)..(k - 1) : ~StartsAt(s, m, Wrote)
  ELSE 0

\* The leftmost match of _MULTI_QUOTE_HDR_REGEX at or after position from:
\* [start, end, groups], start = 0 when there is none.
MULTI_QUOTE_HDR_REGEX(s, from) ==
  IF \E i \in from..Len(s) : MultiWroteAt(s, i) # 0
  THEN LET i == CHOOSE i \in from..Len(s) :
                  MultiWroteAt(s, i) # 0 /\ \A j \in from..(i - 1) : MultiWroteAt(s, j) = 0
           k == MultiWroteAt(s, i)
       IN  [start |-> i, end |-> k + 5,
            groups |-> <<SubSeq(s, i, k + 5), SubSeq(s, i + 3, k - 1)>>]
  ELSE [start |-> 0, end |-> 0, groups |-> <<>>]

(***************************************************************************)
(* re.sub with a replacement template.  The replacement of line 64 is not  *)
(* a literal: sub reads it as a template, where a backslash starts an      *)
(* escape.  A result is [ok, out]; ok = FALSE is re.error (or IndexError)  *)
(* raised by sub.                                                          *)
(***************************************************************************)
Raised == [ok |-> FALSE, out |-> <<>>]

Then(prefix, r) == IF r.ok THEN [ok |-> TRUE, out |-> prefix \o r.out] ELSE Raised

ESCAPES(c) ==
  CASE c = "a" -> "x07"
    [] c = "b" -> "x08"
    [] c = "f" -> "\f"
    [] c = "n" -> NL
    [] c = "r" -> "\r"
    [] c = "t" -> "\t"
    [] c = "v" -> "x0b"
    [] c = BS -> BS
    [] OTHER -> ""

RECURSIVE ParseInt(_, _)
ParseInt(digits, base) ==
  IF digits = <<>> THEN 0
  ELSE ParseInt(SubSeq(digits, 1, Len(digits) - 1), base) * base
         + DigitVal(digits[Len(digits)])

\* group(index) of a match of _MULTI_QUOTE_HDR_REGEX, index in 0..2
Group(groups, index) == IF index = 0 THEN groups[1] ELSE groups[index]

\* The pattern has two groups: a reference to any other one is an error.
AddGroup(groups, index, rest) ==
  IF index > Len(groups) THEN Raised ELSE Then(Group(groups, index), rest)

RECURSIVE ExpandTemplate(_, _, _)
ExpandTemplate(t, i, groups) ==
  IF ~\E b \in i..Len(t) : t[b] = BS
  THEN [ok |-> TRUE, out |-> SubSeq(t, i, Len(t))]
  ELSE
    LET b == CHOOSE b \in i..Len(t) : t[b] = BS /\ \A j \in i..(b - 1) : t[j] # BS
        at(k) == IF k <= Len(t) THEN t[k] ELSE ""
        c == at(b + 1)
        literal == SubSeq(t, i, b - 1)
        \* the rest of the template, after an escape of n characters
        rest(n) == ExpandTemplate(t, b + n, groups)
    IN
    CASE c = "" -> Raised
      [] c = "g" ->
           IF at(b + 2) # "<" \/ ~\E e \in (b + 3)..Len(t) : t[e] = ">"
           THEN Raised
           ELSE LET e == CHOOSE e \in (b + 3)..Len(t) :
                           t[e] = ">" /\ \A j \in (b + 3)..(e - 1) : t[j] # ">"
                    name == SubSeq(t, b + 3, e - 1)
                IN  IF e = b + 3 \/ \E j \in 1..Len(name) : ~IsDigit(name[j])
                    THEN Raised
                    ELSE Then(literal,
                              AddGroup(groups, ParseInt(name, 10), rest(e - b + 1)))
      [] c = "0" ->
           LET n == IF at(b + 2) \in OCTDIGITS
                    THEN IF at(b + 3) \in OCTDIGITS THEN 3 ELSE 2
                    ELSE 1
           IN  Then(literal \o <<CHR[(ParseInt(SubSeq(t, b + 1, b + n), 8) % 256) + 1]>>,
                    rest(n + 1))
      [] c # "0" /\ IsDigit(c) ->
           IF IsDigit(at(b + 2))
           THEN IF c \in OCTDIGITS /\ at(b + 2) \in OCTDIGITS /\ at(b + 3) \in OCTDIGITS
                THEN LET v == ParseInt(SubSeq(t, b + 1, b + 3), 8)
                     IN  IF v > 255 THEN Raised
                         ELSE Then(literal \o <<CHR[v + 1]>>, rest(4))
                ELSE Then(literal,
                          AddGroup(groups, ParseInt(SubSeq(t, b + 1, b + 2), 10), rest(3)))
           ELSE Then(literal, AddGroup(groups, DigitVal(c), rest(2)))
      [] OTHER ->
           IF ESCAPES(c) # "" THEN Then(literal \o <<ESCAPES(c)>>, rest(2))
           ELSE IF c \in ASCIILETTERS THEN Raised
           ELSE Then(literal \o <<BS, c>>, rest(2))

\* MULTI_QUOTE_HDR_REGEX.sub(repl, s): every match, left to right, is
\* replaced by the expansion of the template repl.
RECURSIVE MultiQuoteHdrSub(_, _, _)
MultiQuoteHdrSub(repl, s, from) ==
  LET m == MULTI_QUOTE_HDR_REGEX(s, from)
  IN  IF m.start = 0 THEN [ok |-> TRUE, out |-> SubSeq(s, from, Len(s))]
      ELSE LET e == ExpandTemplate(repl, 1, m.groups)
               rest == MultiQuoteHdrSub(repl, s, m.end + 1)
           IN  IF e.ok THEN Then(SubSeq(s, from, m.start - 1) \o e.out, rest)
               ELSE Raised

\* re.MULTILINE, which line 68 passes to re.sub in the place of count.
MULTILINE == 8

\* The lookahead (?=\n ?[_-]{7,}) after the character at position i.
SigBoundaryAhead(s, i) ==
  LET run(j) == j + 6 <= Len(s) /\ \A k \in 0..6 : s[j + k] \in {"_", "-"}
  IN  /\ i + 1 <= Len(s)
      /\ s[i + 1] = NL
      /\ \/ run(i + 2)
         \/ i + 2 <= Len(s) /\ s[i + 2] = " " /\ run(i + 3)

\* re.sub('([^\n])(?=\n ?[_-]{7,})', '\\1\n', s, count), from position from on
RECURSIVE SigBoundarySub(_, _, _)
SigBoundarySub(s, from, count) ==
  IF count > 0 /\ \E i \in from..Len(s) : s[i] # NL /\ SigBoundaryAhead(s, i)
  THEN LET i == CHOOSE i \in from..Len(s) :
                  /\ s[i] # NL /\ SigBoundaryAhead(s, i)
                  /\ \A j \in from..(i - 1) : ~(s[j] # NL /\ SigBoundaryAhead(s, j))
       IN  SubSeq(s, from, i) \o <<NL>> \o SigBoundarySub(s, i + 1, count - 1)
  ELSE SubSeq(s, from, Len(s))

(***************************************************************************)
(* Fragment.  None is the empty sequence: lines before finish is the list  *)
(* of lines in scan order, _content after finish is the joined block.      *)
(***************************************************************************)
Fragment(quoted, first_line, headers) ==
  [signature |-> FALSE, headers |-> headers, hidden |-> FALSE, quoted |-> quoted,
   _content |-> <<>>, lines |-> <<first_line>>]

\* finish without lines.reverse()
finishUnreversed(f) ==
  [f EXCEPT !._content = Join(<<NL>>, f.lines), !.lines = <<>>]

finish(f) ==
  [f EXCEPT !._content = Join(<<NL>>, Reverse(f.lines)), !.lines = <<>>]

content(f) == Strip(f._content)

(***************************************************************************)
(* EmailMessage.  self.fragment is <<>> (None) or <<f>>.                   *)
(***************************************************************************)
EmailMessage(text) ==
  [fragments |-> <<>>, fragment |-> <<>>, text |-> ReplaceCRLF(text),
   found_visible |-> FALSE, lines |-> <<>>]

\* the sweep of lines 134-135 left out
HideNone(fragments) == fragments

\* for f in self.fragments: f.hidden = True
HideAll(fragments) ==
  [i \in 1..Len(fragments) |-> [fragments[i] EXCEPT !.hidden = TRUE]]

\* the test of lines 137-140 that also takes a fragment for a signature by
\* its text
NotVisibleOrSigText(f) ==
  f.quoted \/ f.headers \/ f.signature \/ Len(Strip(Strip(f._content))) = 0
    \/ SIG_REGEX(Strip(f._content))

\* the test of lines 137-140 without the test for empty content
NotVisibleNoEmpty(f) == f.quoted \/ f.headers \/ f.signature

\* the test of lines 137-140 without the test of signature
NotVisibleNoSignature(f) ==
  f.quoted \/ f.headers \/ Len(Strip(Strip(f._content))) = 0

\* the test of lines 137-140
NotVisible(f) ==
  f.quoted \/ f.headers \/ f.signature \/ Len(Strip(content(f))) = 0

\* _finish_fragment whose test of lines 137-140 is made whatever
\* found_visible is
_finish_fragmentAlwaysTested(self) ==
  IF self.fragment = <<>> THEN self
  ELSE
    LET f == finish(self.fragment[1])
        s1 == IF f.headers
              THEN [self EXCEPT !.found_visible = FALSE,
                                !.fragments = HideAll(self.fragments)]
              ELSE self
        f1 == IF NotVisible(f) THEN [f EXCEPT !.hidden = TRUE] ELSE f
    IN  [s1 EXCEPT !.found_visible = IF ~NotVisible(f) THEN TRUE ELSE @,
                   !.fragments = Append(@, f1),
                   !.fragment = <<>>]

\* _finish_fragment whose sweep of lines 130-135 is also made for a quoted
\* fragment
_finish_fragmentSweepsOnQuoted(self) ==
  IF self.fragment = <<>> THEN self
  ELSE
    LET f == finish(self.fragment[1])
        s1 == IF f.headers \/ f.quoted
              THEN [self EXCEPT !.found_visible = FALSE,
                                !.fragments = HideAll(self.fragments)]
              ELSE self
        f1 == IF ~s1.found_visible /\ NotVisible(f)
              THEN [f EXCEPT !.hidden = TRUE] ELSE f
    IN  [s1 EXCEPT !.found_visible = IF ~@ /\ ~NotVisible(f) THEN TRUE ELSE @,
                   !.fragments = Append(@, f1),
                   !.fragment = <<>>]

\* _finish_fragment without the assignment of line 133
_finish_fragmentKeepsFound(self) ==
  IF self.fragment = <<>> THEN self
  ELSE
    LET f == finish(self.fragment[1])
        s1 == IF f.headers
              THEN [self EXCEPT !.fragments = HideAll(self.fragments)]
              ELSE self
        f1 == IF ~s1.found_visible /\ NotVisible(f)
              THEN [f EXCEPT !.hidden = TRUE] ELSE f
    IN  [s1 EXCEPT !.found_visible = IF ~@ /\ ~NotVisible(f) THEN TRUE ELSE @,
                   !.fragments = Append(@, f1),
                   !.fragment = <<>>]

_finish_fragment(self) ==
  IF self.fragment = <<>> THEN self
  ELSE
    LET f == finish(self.fragment[1])
        s1 == IF f.headers
              THEN [self EXCEPT !.found_visible = FALSE,
                                !.fragments = HideAll(self.fragments)]
              ELSE self
        f1 == IF ~s1.found_visible /\ NotVisible(f)
              THEN [f EXCEPT !.hidden = TRUE] ELSE f
    IN  [s1 EXCEPT !.found_visible = IF ~@ /\ ~NotVisible(f) THEN TRUE ELSE @,
                   !.fragments = Append(@, f1),
                   !.fragment = <<>>]

\* the condition of lines 106-108 without the comparison of quoted
ContinuesHeadersOnly(self, is_header, is_quoted, is_quote_header, blank) ==
  /\ self.fragment # <<>>
  /\ \/ self.fragment[1].headers = is_header
     \/ self.fragment[1].quoted /\ (is_quote_header \/ blank)

\* the condition of lines 106-108 without its second alternative
ContinuesSameFlags(self, is_header, is_quoted, is_quote_header, blank) ==
  /\ self.fragment # <<>>
  /\ self.fragment[1].headers = is_header /\ self.fragment[1].quoted = is_quoted

\* the condition of lines 106-108
Continues(self, is_header, is_quoted, is_quote_header, blank) ==
  /\ self.fragment # <<>>
  /\ \/ self.fragment[1].headers = is_header /\ self.fragment[1].quoted = is_quoted
     \/ self.fragment[1].quoted /\ (is_quote_header \/ blank)

\* the condition of lines 101-102 on every line of the fragment
SignatureFoundAnyLine(self, blank) ==
  /\ self.fragment # <<>>
  /\ blank
  /\ \E i \in 1..Len(self.fragment[1].lines) : SIG_REGEX(Strip(self.fragment[1].lines[i]))

\* the condition of lines 101-102 on the first line appended to the fragment
SignatureFoundFirstLine(self, blank) ==
  /\ self.fragment # <<>>
  /\ blank
  /\ SIG_REGEX(Strip(self.fragment[1].lines[1]))

\* the condition of lines 101-102
SignatureFound(self, blank) ==
  /\ self.fragment # <<>>
  /\ blank
  /\ SIG_REGEX(Strip(self.fragment[1].lines[Len(self.fragment[1].lines)]))

_scan_line(self, line) ==
  LET is_quote_header == QUOTE_HDR_REGEX(line)
      is_quoted == QUOTED_REGEX(line)
      is_header == is_quote_header \/ HEADER_REGEX(line)
      blank == Len(Strip(line)) = 0
      s1 == IF SignatureFound(self, blank)
            THEN _finish_fragment([self EXCEPT !.fragment[1].signature = TRUE])
            ELSE self
  IN  IF Continues(s1, is_header, is_quoted, is_quote_header, blank)
      THEN [s1 EXCEPT !.fragment[1].lines = Append(@, line)]
      ELSE [_finish_fragment(s1) EXCEPT
              !.fragment = <<Fragment(is_quoted, line, is_header)>>]

\* the loop of reply without the test of f.quoted
RECURSIVE ReplyListHiddenOnly(_)
ReplyListHiddenOnly(fragments) ==
  IF fragments = <<>> THEN <<>>
  ELSE IF ~fragments[1].hidden
       THEN <<Strip(fragments[1]._content)>> \o ReplyListHiddenOnly(Tail(fragments))
       ELSE ReplyListHiddenOnly(Tail(fragments))

\* the property reply of EmailMessage
RECURSIVE ReplyList(_)
ReplyList(fragments) ==
  IF fragments = <<>> THEN <<>>
  ELSE IF ~(fragments[1].hidden \/ fragments[1].quoted)
       THEN <<content(fragments[1])>> \o ReplyList(Tail(fragments))
       ELSE ReplyList(Tail(fragments))

reply(self) == Join(<<NL>>, ReplyList(self.fragments))

\* read() run from its first line to its last, lines 53-80: [ok, self], ok =
\* FALSE when line 64 raises
RECURSIVE ScanLines(_, _)
ScanLines(self, i) ==
  IF i > Len(self.lines) THEN self
  ELSE ScanLines(_scan_line(self, self.lines[i]), i + 1)

read(self) ==
  LET m == MULTI_QUOTE_HDR_REGEX(self.text, 1)
      r == IF m.start # 0
           THEN MultiQuoteHdrSub(RemoveNewlines(m.groups[1]), self.text, 1)
           ELSE [ok |-> TRUE, out |-> self.text]
      text == SigBoundarySub(r.out, 1, MULTILINE)
      s == _finish_fragment(
             ScanLines([self EXCEPT !.found_visible = FALSE, !.text = text,
                                    !.lines = Reverse(Split(text, NL))], 1))
  IN  IF r.ok THEN [ok |-> TRUE, self |-> [s EXCEPT !.fragments = Reverse(s.fragments)]]
      ELSE [ok |-> FALSE, self |-> [self EXCEPT !.found_visible = FALSE]]

(***************************************************************************)
(* Inputs.  The bodies the parser is run on: every body of up to MaxLines  *)
(* lines drawn from LineKinds, every whitespace-only body of up to         *)
(* MaxBlank characters, and the bodies of Scenarios.                       *)
(***************************************************************************)
MaxLines == 3

MaxBlank == 4

LineKinds ==
  { <<>>,
    <<" ">>,
    <<"a">>,
    <<"b", "\r">>,
    <<">", "a">>,
    <<"O", "n", " ", "a", " ", "w", "r", "o", "t", "e", ":">>,
    <<"O", "n", " ", "a">>,
    <<"w", "r", "o", "t", "e", ":">>,
    <<BS>>,
    <<"F", "r", "o", "m", ":", " ", "a">>,
    <<"-", "a">>,
    <<"-", "-", "-", "-", "-", "-", "-">>,
    <<"S", "e", "n", "t", " ", "f", "r", "o", "m", " ", "m", "y", " ", "a">> }

BlankChars == {" ", "\t", "\n", "\r"}

LineInputs ==
  { Join(<<NL>>, ls) : ls \in UNION { [1..n -> LineKinds] : n \in 0..MaxLines } }

BlankInputs == UNION { [1..n -> BlankChars] : n \in 0..MaxBlank }

\* "Hi,\nok thanks.\n\n-Alice\n"
ScenarioA ==
  <<"H", "i", ",", "\n", "o", "k", " ", "t", "h", "a", "n", "k", "s", ".",
    "\n", "\n", "-", "A", "l", "i", "c", "e", "\n">>

\* "New content.\n\nOn Mon, Jan 1, 2018 at 1:00 PM, Bob wrote:\n> old content\n> more old content"
ScenarioB ==
  <<"N", "e", "w", " ", "c", "o", "n", "t", "e", "n", "t", ".", "\n", "\n",
    "O", "n", " ", "M", "o", "n", ",", " ", "J", "a", "n", " ", "1", ",",
    " ", "2", "0", "1", "8", " ", "a", "t", " ", "1", ":", "0", "0", " ",
    "P", "M", ",", " ", "B", "o", "b", " ", "w", "r", "o", "t", "e", ":",
    "\n", ">", " ", "o", "l", "d", " ", "c", "o", "n", "t", "e", "n", "t",
    "\n", ">", " ", "m", "o", "r", "e", " ", "o", "l", "d", " ", "c", "o",
    "n", "t", "e", "n", "t">>

\* "Thanks!\n\nFrom: a@b.com\nSent: today\nTo: c@d.com\nSubject: hi\n\noriginal body"
ScenarioC ==
  <<"T", "h", "a", "n", "k", "s", "!", "\n", "\n", "F", "r", "o", "m", ":",
    " ", "a", "@", "b", ".", "c", "o", "m", "\n", "S", "e", "n", "t", ":",
    " ", "t", "o", "d", "a", "y", "\n", "T", "o", ":", " ", "c", "@", "d",
    ".", "c", "o", "m", "\n", "S", "u", "b", "j", "e", "c", "t", ":", " ",
    "h", "i", "\n", "\n", "o", "r", "i", "g", "i", "n", "a", "l", " ", "b",
    "o", "d", "y">>

\* "Sent from my iPhone"
ScenarioE ==
  <<"S", "e", "n", "t", " ", "f", "r", "o", "m", " ", "m", "y", " ", "i",
    "P", "h", "o", "n", "e">>

\* "Hi\n\n-Alice\n> q\nb"
SignatureAboveQuote ==
  <<"H", "i", "\n", "\n", "-", "A", "l", "i", "c", "e", "\n", ">", " ",
    "q", "\n", "b">>

\* "Hi\n\n-Alice On \\3 wrote:"
SignatureWithEscape ==
  <<"H", "i", "\n", "\n", "-", "A", "l", "i", "c", "e", " ", "O", "n", " ",
    "\\", "3", " ", "w", "r", "o", "t", "e", ":">>

\* "Hi\n\nOn \\3 wrote:\n> q"
QuoteHeaderWithEscape ==
  <<"H", "i", "\n", "\n", "O", "n", " ", "\\", "3", " ", "w", "r", "o",
    "t", "e", ":", "\n", ">", " ", "q">>

\* "Come On\n\nOn.x wrote:\n> q"
ReplyEndingInOn ==
  <<"C", "o", "m", "e", " ", "O", "n", "\n", "\n", "O", "n", ".", "x", " ",
    "w", "r", "o", "t", "e", ":", "\n", ">", " ", "q">>

\* "a\n> q\nb\n\n-c"
InlineReply ==
  <<"a", "\n", ">", " ", "q", "\n", "b", "\n", "\n", "-", "c">>

\* "a\n-------": a line and a boundary line right below it
ReplyAboveBoundary == <<"a", "\n", "-", "-", "-", "-", "-", "-", "-">>

\* one more reply above a boundary line than the fourth argument of line 68
\* stands for
ManyBoundaries == Join(<<NL>>, [i \in 1..(MULTILINE + 1) |-> ReplyAboveBoundary])

\* "Hi\n\nOn a\\n\nwrote:\n> q": the quote header is on two lines and holds a
\* backslash and the letter n
QuoteHeaderWithNewlineEscape ==
  <<"H", "i", "\n", "\n", "O", "n", " ", "a", "\\", "n", "\n", "w", "r",
    "o", "t", "e", ":", "\n", ">", " ", "q">>

\* "a\n\nHi On x wrote:\n> q": text stands before the On of the quote header
TextBeforeOn ==
  <<"a", "\n", "\n", "H", "i", " ", "O", "n", " ", "x", " ", "w", "r", "o",
    "t", "e", ":", "\n", ">", " ", "q">>

\* "a\n\nOnwrote:\n> q": nothing stands between On and wrote:
NothingAfterOn ==
  <<"a", "\n", "\n", "O", "n", "w", "r", "o", "t", "e", ":", "\n", ">",
    " ", "q">>

\* lines that the signature check is tried on
SigLines ==
  { <<"-", "-">>,
    <<"_", "_">>,
    <<"-", "a">>,
    <<"-", "_">>,
    <<"a", "-">>,
    <<"a", "-", "b">>,
    <<"-">>,
    <<"-", " ", "a">>,
    <<"_", "a">>,
    <<"x", "-", "-">>,
    <<" ", "-", "a">>,
    <<"S", "e", "n", "t", " ", "f", "r", "o", "m", " ", "m", "y", " ", "a">>,
    <<"S", "e", "n", "t", " ", "f", "r", "o", "m", " ", "m", "y", " ", "a", " ", "b", " ", "c">>,
    <<"S", "e", "n", "t", " ", "f", "r", "o", "m", " ", "m", "y", " ", "a", " ", "b", " ", "c", " ", "d">>,
    <<"S", "e", "n", "t", " ", "f", "r", "o", "m", " ", "m", "y", " ", "!">>,
    <<"S", "e", "n", "t", " ", "f", "r", "o", "m", " ", "m", "y", "a">>,
    <<"s", "e", "n", "t", " ", "f", "r", "o", "m", " ", "m", "y", " ", "a">>,
    <<"a", " ", "S", "e", "n", "t", " ", "f", "r", "o", "m", " ", "m", "y", " ", "b">>,
    <<"S", "e", "n", "t", " ", "f", "r", "o", "m", " ", "m", "y", " ", "a", "!">>,
    Strip(SentFromMy) }

\* a blank line and one line of SigLines below it
SigProbes == { <<NL>> \o line : line \in SigLines }

Scenarios ==
  { ScenarioA, ScenarioB, ScenarioC, ScenarioE,
    SignatureAboveQuote, SignatureWithEscape, QuoteHeaderWithEscape, ReplyEndingInOn,
    InlineReply, ManyBoundaries, QuoteHeaderWithNewlineEscape,
    TextBeforeOn, NothingAfterOn } \cup SigProbes

Inputs == LineInputs \cup BlankInputs \cup Scenarios

\* the bodies of two parses that run interleaved
ParInputs ==
  { <<"a">>, <<"a", "\n", ">", "a">>, <<"a", "\n", "\n", "-", "a">>,
    <<"a", "\n", "F", "r", "o", "m", ":", " ", "a", "\n", "b">>,
    <<"O", "n", " ", BS, "w", "r", "o", "t", "e", ":">>, ScenarioA }

(***************************************************************************)
(* The state.  A call is one invocation of EmailReplyParser.parse_reply;   *)
(* msg[m] is the EmailMessage instance m.                                  *)
(***************************************************************************)
VARIABLES
  input,   \* input[c]: the text the call c was given
  msg,     \* msg[m]: the attributes of the EmailMessage instance m
  pc,      \* pc[c]: where the call c is
  idx,     \* idx[c]: the position of the loop of read() in self.lines
  result   \* result[c]: what parse_reply returned

vars == <<input, msg, pc, idx, result>>

Calls == {1, 2}

\* one EmailMessage that every call works on
SelfShared(c) == 1

\* EmailReplyParser.read builds a new EmailMessage for every call
Self(c) == c

self(c) == msg[Self(c)]

Init ==
  /\ input \in { [c \in Calls |-> IF c = 1 THEN t ELSE <<>>] : t \in Inputs }
  /\ msg = [m \in Calls |-> EmailMessage(<<>>)]
  /\ pc = [c \in Calls |-> IF c = 1 THEN "call" ELSE "idle"]
  /\ idx = [c \in Calls |-> 0]
  /\ result = [c \in Calls |-> <<>>]

InitPar ==
  /\ input \in [Calls -> ParInputs]
  /\ msg = [m \in Calls |-> EmailMessage(<<>>)]
  /\ pc = [c \in Calls |-> "call"]
  /\ idx = [c \in Calls |-> 0]
  /\ result = [c \in Calls |-> <<>>]

\* EmailMessage(text), line 22
Construct(c) ==
  /\ pc[c] = "call"
  /\ msg' = [msg EXCEPT ![Self(c)] = EmailMessage(input[c])]
  /\ pc' = [pc EXCEPT ![c] = "read"]
  /\ UNCHANGED <<input, idx, result>>

\* read(), lines 60-64: the multi-line quote header is put on one line
CollapseQuoteHeader(c) ==
  /\ pc[c] = "read"
  /\ LET m == MULTI_QUOTE_HDR_REGEX(self(c).text, 1)
         r == IF m.start # 0
              THEN MultiQuoteHdrSub(RemoveNewlines(m.groups[1]), self(c).text, 1)
              ELSE [ok |-> TRUE, out |-> self(c).text]
     IN  /\ msg' = [msg EXCEPT ![Self(c)] =
                      [@ EXCEPT !.found_visible = FALSE,
                                !.text = IF r.ok THEN r.out ELSE @]]
         /\ pc' = [pc EXCEPT ![c] = IF r.ok THEN "fix" ELSE "raised"]
  /\ UNCHANGED <<input, idx, result>>

\* read(), line 68
FixSignatureBoundary(c) ==
  /\ pc[c] = "fix"
  /\ msg' = [msg EXCEPT ![Self(c)].text = SigBoundarySub(@, 1, MULTILINE)]
  /\ pc' = [pc EXCEPT ![c] = "split"]
  /\ UNCHANGED <<input, idx, result>>

\* read(), lines 70-71
SplitLines(c) ==
  /\ pc[c] = "split"
  /\ msg' = [msg EXCEPT ![Self(c)].lines = Reverse(Split(self(c).text, NL))]
  /\ idx' = [idx EXCEPT ![c] = 1]
  /\ pc' = [pc EXCEPT ![c] = "scan"]
  /\ UNCHANGED <<input, result>>

\* read(), lines 73-74: one turn of the loop
ScanLine(c) ==
  /\ pc[c] = "scan"
  /\ idx[c] <= Len(self(c).lines)
  /\ msg' = [msg EXCEPT ![Self(c)] = _scan_line(@, @.lines[idx[c]])]
  /\ idx' = [idx EXCEPT ![c] = @ + 1]
  /\ UNCHANGED <<input, pc, result>>

\* read(), lines 76-80
FinishRead(c) ==
  /\ pc[c] = "scan"
  /\ idx[c] > Len(self(c).lines)
  /\ msg' = [msg EXCEPT ![Self(c)] =
               LET s == _finish_fragment(@)
               IN  [s EXCEPT !.fragments = Reverse(s.fragments)]]
  /\ pc' = [pc EXCEPT ![c] = "done"]
  /\ UNCHANGED <<input, idx, result>>

\* parse_reply, line 32: the reply of the message read() returned
ParseReply(c) ==
  /\ pc[c] = "done"
  /\ result' = [result EXCEPT ![c] = reply(self(c))]
  /\ pc' = [pc EXCEPT ![c] = "replied"]
  /\ UNCHANGED <<input, msg, idx>>

Next ==
  \E c \in Calls :
    \/ Construct(c)
    \/ CollapseQuoteHeader(c)
    \/ FixSignatureBoundary(c)
    \/ SplitLines(c)
    \/ ScanLine(c)
    \/ FinishRead(c)
    \/ ParseReply(c)

Spec == Init /\ [][Next]_vars

SpecPar == InitPar /\ [][Next]_vars

(***************************************************************************)
(* The properties.                                                         *)
(***************************************************************************)
Returned(c) == pc[c] \in {"done", "replied"}

\* the lines of a finished fragment, top to bottom
LinesOf(f) == Split(f._content, NL)

\* the lines of the body the call c was given
InputLines(c) == Split(ReplaceCRLF(input[c]), NL)

\* C1: read and parse_reply never raise, whatever the text is, also when the
\* matched 'On ... wrote:' span holds a backslash.
C1_NeverRaises == \A c \in Calls : pc[c] # "raised"

\* C2: after read() the untrimmed blocks of the fragments, joined with
\* newlines in the order of the list, are the normalized text: every line is
\* in exactly one fragment and the order of the lines is kept.
C2_FragmentsPartitionText ==
  \A c \in Calls :
    Returned(c) =>
      Join(<<NL>>, [i \in 1..Len(self(c).fragments) |-> self(c).fragments[i]._content])
        = self(c).text

C2_Witness ==
  \E c \in Calls :
    /\ Returned(c)
    /\ Len(self(c).fragments) >= 3
    /\ \E i \in 1..Len(self(c).fragments) : Len(LinesOf(self(c).fragments[i])) >= 2
    /\ self(c).text # input[c]

\* C3: the reply is the trimmed contents of the fragments that are neither
\* hidden nor quoted, top to bottom, joined with newlines; it is empty when
\* there is no such fragment.
C3_ReplyIsVisibleUnquoted ==
  \A c \in Calls :
    pc[c] = "replied" =>
      LET vis == SelectSeq(self(c).fragments,
                           LAMBDA f : f.hidden = FALSE /\ f.quoted = FALSE)
      IN  /\ result[c] = Join(<<NL>>, [i \in 1..Len(vis) |-> Strip(vis[i]._content)])
          /\ vis = <<>> => result[c] = <<>>

C3_Witness ==
  \E c \in Calls :
    /\ pc[c] = "replied"
    /\ \E i, j, k, l \in 1..Len(self(c).fragments) :
         /\ i < j
         /\ ~self(c).fragments[i].hidden /\ ~self(c).fragments[i].quoted
         /\ ~self(c).fragments[j].hidden /\ ~self(c).fragments[j].quoted
         /\ self(c).fragments[k].quoted /\ ~self(c).fragments[k].hidden
         /\ self(c).fragments[l].hidden /\ ~self(c).fragments[l].quoted

\* C4: a line that begins with ">" is in a fragment whose quoted flag is
\* true: no fragment with quoted = FALSE, closed or open, holds such a line.
C4_QuotedLinesInQuotedFragments ==
  \A c \in Calls :
    /\ \A i \in 1..Len(self(c).fragments) :
         \A n \in 1..Len(LinesOf(self(c).fragments[i])) :
           QUOTED_REGEX(LinesOf(self(c).fragments[i])[n]) => self(c).fragments[i].quoted
    /\ self(c).fragment # <<>> =>
         \A n \in 1..Len(self(c).fragment[1].lines) :
           QUOTED_REGEX(self(c).fragment[1].lines[n]) => self(c).fragment[1].quoted

C4_Witness ==
  \E c \in Calls :
    /\ Returned(c)
    /\ \E i, j \in 1..Len(self(c).fragments) :
         /\ self(c).fragments[i].quoted
         /\ \E n \in 1..Len(LinesOf(self(c).fragments[i])) :
              ~QUOTED_REGEX(LinesOf(self(c).fragments[i])[n])
         /\ ~self(c).fragments[j].quoted
         /\ content(self(c).fragments[j]) # <<>>

\* C5: in the final list, every fragment below a fragment whose first line
\* is a From:/Sent:/To:/Subject: header is hidden.
C5_BelowHeaderHidden ==
  \A c \in Calls :
    Returned(c) =>
      \A i, j \in 1..Len(self(c).fragments) :
        (i < j /\ HEADER_REGEX(LinesOf(self(c).fragments[i])[1]))
          => self(c).fragments[j].hidden

\* a fragment of plain text below the header block: it was visible when it
\* was closed and is hidden in the end
C5_Witness ==
  \E c \in Calls :
    /\ Returned(c)
    /\ \E i, j \in 1..Len(self(c).fragments) :
         /\ i < j
         /\ HEADER_REGEX(LinesOf(self(c).fragments[i])[1])
         /\ ~self(c).fragments[j].quoted
         /\ ~self(c).fragments[j].headers
         /\ ~self(c).fragments[j].signature
         /\ content(self(c).fragments[j]) # <<>>
         /\ self(c).fragments[j].hidden

\* C6, as claimed: the body "Sent from my iPhone", alone, is one signature
\* fragment that is hidden, and the reply is empty.
C6_SentFromMyHidden ==
  \A c \in Calls :
    (input[c] = ScenarioE /\ pc[c] = "replied") =>
      /\ Len(self(c).fragments) = 1
      /\ self(c).fragments[1].signature
      /\ self(c).fragments[1].hidden
      /\ result[c] = <<>>

\* C6, amended: the body "Sent from my iPhone", alone, is one fragment that
\* is neither a signature nor hidden (no blank line is scanned after it, and
\* only a blank line sets signature), and the reply is the line itself.
C6_SentFromMyVisible ==
  \A c \in Calls :
    (input[c] = ScenarioE /\ pc[c] = "replied") =>
      /\ Len(self(c).fragments) = 1
      /\ ~self(c).fragments[1].signature
      /\ ~self(c).fragments[1].hidden
      /\ result[c] = ScenarioE

C6_Witness == \E c \in Calls : input[c] = ScenarioE /\ pc[c] = "replied"

\* C7: for a body of whitespace only (the empty body too) nothing is raised,
\* the reply is empty and the list holds at most one fragment, hidden.
C7_WhitespaceOnly ==
  \A c \in Calls :
    (\A i \in 1..Len(input[c]) : input[c][i] \in Whitespace) =>
      /\ pc[c] # "raised"
      /\ pc[c] = "replied" =>
           /\ result[c] = <<>>
           /\ Len(self(c).fragments) <= 1
           /\ \A i \in 1..Len(self(c).fragments) : self(c).fragments[i].hidden

C7_Witness ==
  \E c \in Calls :
    /\ pc[c] = "replied"
    /\ Len(input[c]) >= 3
    /\ \A i \in 1..Len(input[c]) : input[c][i] \in Whitespace
    /\ \E i, j, k \in 1..Len(input[c]) :
         input[c][i] = NL /\ input[c][j] = "\t" /\ input[c][k] = " "
    /\ Len(self(c).fragments) = 1

\* a line of reply text: not quoted, not a header, not the start of a signature
PlainLine(line) ==
  /\ ~QUOTED_REGEX(line)
  /\ ~QUOTE_HDR_REGEX(line)
  /\ ~HEADER_REGEX(line)
  /\ ~SIG_REGEX(Strip(line))

\* the text holds an 'On ... wrote:' span
HasQuoteHeaderSpan(s) ==
  \E i, j \in 1..Len(s) : i + 2 <= j /\ StartsAt(s, i, On) /\ StartsAt(s, j, Wrote)

\* the lines 1..k-1 are reply text and the line k is blank
ReplyTextAbove(ls, k) ==
  /\ \A i \in 1..(k - 1) : PlainLine(ls[i])
  /\ ~HasQuoteHeaderSpan(Join(<<NL>>, SubSeq(ls, 1, k - 1)))
  /\ Strip(ls[k]) = <<>>

\* the body is reply text (the lines above k), the blank line k, and a last
\* block of lines that are not blank and start with the start of a signature;
\* the body may end with a line break
SignatureBody(ls, k) ==
  /\ k \in 2..(Len(ls) - 1)
  /\ ReplyTextAbove(ls, k)
  /\ SIG_REGEX(Strip(ls[k + 1]))
  /\ \A i \in (k + 1)..Len(ls) : Strip(ls[i]) # <<>> \/ (i = Len(ls) /\ ls[i] = <<>>)

BoundaryLine(line) ==
  \E a \in 0..1 :
    /\ a = 1 => StartsAt(line, 1, <<" ">>)
    /\ Len(line) >= a + 7
    /\ \A i \in (a + 1)..(a + 7) : line[i] \in {"_", "-"}

\* SignatureBody where, also, the lines of the last block are neither quoted
\* nor headers, none of them after the first is a boundary line, and the
\* whole body holds no 'On ... wrote:' span
PlainSignatureBody(ls, k) ==
  /\ SignatureBody(ls, k)
  /\ ~HasQuoteHeaderSpan(Join(<<NL>>, ls))
  /\ \A i \in (k + 1)..Len(ls) :
       ~QUOTED_REGEX(ls[i]) /\ ~HEADER_REGEX(ls[i]) /\ ~QUOTE_HDR_REGEX(ls[i])
  /\ \A i \in (k + 2)..Len(ls) : ~BoundaryLine(ls[i])

QuotedReplyBody(ls, k) ==
  /\ k \in 2..(Len(ls) - 2)
  /\ ReplyTextAbove(ls, k)
  /\ QUOTE_HDR_REGEX(ls[k + 1])
  /\ \A i \in (k + 2)..Len(ls) : QUOTED_REGEX(ls[i])

\* C9: when the body is reply text, a blank line, one 'On ... wrote:' line
\* and then only lines that begin with ">", nothing is raised, the quote
\* header and the ">" lines are in one quoted fragment, the last one, which
\* is the only fragment with them, and the reply is the trimmed reply text.
C9_QuoteHeaderAndQuotedLines ==
  \A c \in Calls :
    \A k \in 1..Len(InputLines(c)) :
      QuotedReplyBody(InputLines(c), k) =>
        /\ pc[c] # "raised"
        /\ pc[c] = "replied" =>
             LET fr == self(c).fragments
                 ls == InputLines(c)
                 last == LinesOf(fr[Len(fr)])
                 n == Len(ls) - k
             IN  /\ result[c] = Strip(Join(<<NL>>, SubSeq(ls, 1, k - 1)))
                 /\ fr[Len(fr)].quoted
                 /\ Len(last) >= n
                 /\ SubSeq(last, Len(last) - n + 1, Len(last)) = SubSeq(ls, k + 1, Len(ls))

\* C10: two parses whose steps are interleaved end, each, with the fragments
\* and the reply that read() and reply give for its text when run alone.
C10_InterleavedParsesIndependent ==
  \A c \in Calls :
    /\ pc[c] = "raised" => ~read(EmailMessage(input[c])).ok
    /\ pc[c] = "replied" =>
      LET alone == read(EmailMessage(input[c]))
      IN  /\ alone.ok
          /\ self(c).fragments = alone.self.fragments
          /\ self(c).text = alone.self.text
          /\ self(c).found_visible = alone.self.found_visible
          /\ result[c] = reply(alone.self)

\* the call 1 has returned its reply while the call 2, of another text, is in
\* the middle of its scan with a fragment open
C10_Witness ==
  /\ pc[1] = "replied"
  /\ pc[2] = "scan"
  /\ idx[2] > 1
  /\ self(2).fragment # <<>>
  /\ input[1] # input[2]
  /\ Len(self(1).fragments) >= 2

\* the call c makes one turn of the loop of read() on a blank line while a
\* fragment is open
BlankLineStep(c) ==
  /\ pc[c] = "scan"
  /\ idx'[c] = idx[c] + 1
  /\ self(c).fragment # <<>>
  /\ Len(Strip(self(c).lines[idx[c]])) = 0

\* in this step the fragment that was open is closed with signature = TRUE
ClosedAsSignature(c) ==
  LET f == self(c).fragment[1]
      after == msg'[Self(c)].fragments
  IN  /\ Len(after) = Len(self(c).fragments) + 1
      /\ after[Len(after)].signature
      /\ after[Len(after)]._content = Join(<<NL>>, Reverse(f.lines))

\* C11, as claimed: at a blank line the open fragment is marked as a
\* signature and closed exactly when the line that was appended to it first
\* (the bottom line of the fragment) is the start of a signature.
C11_InspectsFirstAppended ==
  [][\A c \in Calls :
       BlankLineStep(c) =>
         (ClosedAsSignature(c) <=> SIG_REGEX(Strip(self(c).fragment[1].lines[1])))]_vars

\* C11, amended: at a blank line the open fragment is marked as a signature
\* and closed exactly when the line that was appended to it last (the top
\* line of the fragment, the one right below the blank line) is the start of
\* a signature.
C11_InspectsLastAppended ==
  [][\A c \in Calls :
       BlankLineStep(c) =>
         LET f == self(c).fragment[1]
         IN  ClosedAsSignature(c) <=> SIG_REGEX(Strip(f.lines[Len(f.lines)]))]_vars

\* a signature fragment of two lines or more whose top line is the start of
\* a signature and whose bottom line is not
C11_Witness ==
  \E c \in Calls :
    /\ pc[c] = "scan"
    /\ \E i \in 1..Len(self(c).fragments) :
         LET ls == LinesOf(self(c).fragments[i])
         IN  /\ self(c).fragments[i].signature
             /\ Len(ls) >= 2
             /\ SIG_REGEX(Strip(ls[1]))
             /\ ~SIG_REGEX(Strip(ls[Len(ls)]))

\* the call c makes one turn of the loop of read()
ScanStep(c) == pc[c] = "scan" /\ idx'[c] = idx[c] + 1

\* the open fragment of the call c once the signature check of the line it
\* scans is over: <<>> when there is none or the check has closed it
OpenAfterSignatureCheck(c) ==
  LET f == self(c).fragment
  IN  IF /\ f # <<>>
         /\ Len(Strip(self(c).lines[idx[c]])) = 0
         /\ SIG_REGEX(Strip(f[1].lines[Len(f[1].lines)]))
      THEN <<>> ELSE f

\* C12: after the signature check the line is appended to the open fragment
\* exactly when there is an open fragment and either its headers and quoted
\* flags are those of the line, or it is quoted and the line is a quote
\* header or blank; in every other case the open fragment, if any, is closed
\* and a new fragment is opened that holds this line only and takes its
\* quoted and headers flags from the line.
C12_ContinuationRule ==
  [][\A c \in Calls :
       ScanStep(c) =>
         LET line == self(c).lines[idx[c]]
             open == OpenAfterSignatureCheck(c)
             qh == QUOTE_HDR_REGEX(line)
             q == QUOTED_REGEX(line)
             h == qh \/ HEADER_REGEX(line)
             blank == Len(Strip(line)) = 0
             after == msg'[Self(c)]
             extends == /\ open # <<>>
                        /\ \/ open[1].headers = h /\ open[1].quoted = q
                           \/ open[1].quoted /\ (qh \/ blank)
         IN  IF extends
             THEN /\ after.fragment = <<[open[1] EXCEPT !.lines = Append(@, line)]>>
                  /\ after.fragments = self(c).fragments
             ELSE /\ after.fragment =
                       <<[signature |-> FALSE, headers |-> h, hidden |-> FALSE,
                          quoted |-> q, _content |-> <<>>, lines |-> <<line>>]>>
                  /\ Len(after.fragments) =
                       Len(self(c).fragments) + (IF self(c).fragment # <<>> THEN 1 ELSE 0)
                  /\ self(c).fragment # <<>> =>
                       after.fragments[Len(after.fragments)]._content =
                         Join(<<NL>>, Reverse(self(c).fragment[1].lines))]_vars

\* an open quoted fragment that took a blank line and a quote header
C12_Witness ==
  \E c \in Calls :
    /\ pc[c] = "scan"
    /\ self(c).fragment # <<>>
    /\ self(c).fragment[1].quoted
    /\ \E i, j \in 1..Len(self(c).fragment[1].lines) :
         /\ Len(Strip(self(c).fragment[1].lines[i])) = 0
         /\ QUOTE_HDR_REGEX(self(c).fragment[1].lines[j])

\* in this step the call c closes its open fragment: in a turn of the loop
\* or at line 76
Finalizes(c) ==
  /\ pc[c] = "scan"
  /\ self(c).fragment # <<>>
  /\ Len(msg'[Self(c)].fragments) = Len(self(c).fragments) + 1

\* the fragment that this step of the call c has closed; line 78 turns the
\* list round
Finalized(c) ==
  LET after == msg'[Self(c)].fragments
  IN  IF pc'[c] = "done" THEN after[1] ELSE after[Len(after)]

\* C13: a fragment closed while found_visible is false is hidden when it is
\* quoted, headers, a signature or empty once trimmed, and else it is not
\* hidden and found_visible becomes true; a fragment that is not headers and
\* is closed while found_visible is true is not hidden, whatever its quoted
\* and signature flags and its content are.
C13_VisibilityRule ==
  [][\A c \in Calls :
       Finalizes(c) =>
         LET g == Finalized(c)
         IN  /\ ~self(c).found_visible =>
                  IF g.quoted \/ g.headers \/ g.signature \/ Len(Strip(g._content)) = 0
                  THEN g.hidden
                  ELSE ~g.hidden /\ msg'[Self(c)].found_visible
             /\ self(c).found_visible /\ ~g.headers =>
                  ~g.hidden /\ msg'[Self(c)].found_visible]_vars

\* a signature fragment and a quoted fragment that were closed after the
\* first visible fragment, none of the three hidden
C13_Witness ==
  \E c \in Calls :
    /\ Returned(c)
    /\ \E i, j, k \in 1..Len(self(c).fragments) :
         /\ self(c).fragments[i].signature /\ ~self(c).fragments[i].hidden
         /\ self(c).fragments[j].quoted /\ ~self(c).fragments[j].hidden
         /\ ~self(c).fragments[k].quoted /\ ~self(c).fragments[k].signature
         /\ ~self(c).fragments[k].hidden

\* C14: a fragment that is in the list keeps its content and its quoted,
\* headers and signature flags in every later step; its hidden flag never
\* goes from true to false, and goes from false to true only in a step that
\* closes a headers fragment.
C14_ClosedFragmentsFrozen ==
  [][\A c \in Calls :
       LET before == self(c).fragments
           after == msg'[Self(c)].fragments
       IN  /\ Len(after) >= Len(before)
           /\ \A i \in 1..Len(before) :
                LET j == IF pc[c] = "scan" /\ pc'[c] = "done"
                         THEN Len(after) - i + 1 ELSE i
                IN  /\ [after[j] EXCEPT !.hidden = before[i].hidden] = before[i]
                    /\ before[i].hidden => after[j].hidden
                    /\ ~before[i].hidden /\ after[j].hidden =>
                         Finalizes(c) /\ Finalized(c).headers]_vars

\* a fragment that was visible when it was closed and that a headers fragment
\* above it has hidden
C14_Witness ==
  \E c \in Calls :
    /\ Returned(c)
    /\ \E i, j \in 1..Len(self(c).fragments) :
         /\ i < j
         /\ self(c).fragments[i].headers
         /\ self(c).fragments[j].hidden
         /\ ~self(c).fragments[j].quoted /\ ~self(c).fragments[j].headers
         /\ ~self(c).fragments[j].signature
         /\ Len(Strip(self(c).fragments[j]._content)) > 0

\* a line made of one space at most and then 7 or more "_" or "-"
MadeOfBoundary(line) ==
  \E a \in 0..1 :
    /\ a = 1 => StartsAt(line, 1, <<" ">>)
    /\ Len(line) >= a + 7
    /\ \A i \in (a + 1)..Len(line) : line[i] \in {"_", "-"}

\* C15: once the text is normalized, however many boundary lines it has,
\* every line made of an optional space and 7 or more "_" or "-" that has a
\* line above it has an empty line above it: the fix of line 68 has put a
\* line break wherever a line that is not empty stood right above one.
C15_EveryBoundaryFixed ==
  \A c \in Calls :
    pc[c] \in {"split", "scan", "done", "replied"} =>
      LET ls == Split(self(c).text, NL)
      IN  \A i \in 2..Len(ls) : MadeOfBoundary(ls[i]) => ls[i - 1] = <<>>

\* the text with the newlines of its first 'On ... wrote:' span deleted and
\* nothing else changed
NewlinesOfSpanDeleted(s) ==
  LET m == MULTI_QUOTE_HDR_REGEX(s, 1)
  IN  IF m.start = 0 THEN s
      ELSE SubSeq(s, 1, m.start - 1) \o RemoveNewlines(SubSeq(s, m.start, m.end))
             \o SubSeq(s, m.end + 1, Len(s))

\* C16: the pass of lines 62-64 changes the text only by deleting the
\* newlines inside the matched 'On ... wrote:' span; every other character is
\* kept, in order, and the text is unchanged when no span matches.
C16_CollapseOnlyDeletesNewlines ==
  [][\A c \in Calls :
       pc[c] = "read" /\ pc'[c] = "fix" =>
         msg'[Self(c)].text = NewlinesOfSpanDeleted(self(c).text)]_vars

\* the line starts with "--", with "__", with a word character and a hyphen
\* after it, or is "Sent from my " and one to three words
SigStartAsClaimed(s) ==
  \/ StartsAt(s, 1, <<"-", "-">>)
  \/ StartsAt(s, 1, <<"_", "_">>)
  \/ Len(s) >= 2 /\ s[1] \in WordChars /\ s[2] = "-"
  \/ /\ StartsAt(s, 1, SentFromMy)
     /\ LET words == Split(SubSeq(s, Len(SentFromMy) + 1, Len(s)), " ")
        IN  /\ Len(words) \in 1..3
            /\ \A i \in 1..Len(words) :
                 /\ words[i] # <<>>
                 /\ \A j \in 1..Len(words[i]) : words[i][j] \in WordChars

\* the line starts with "--", with "__", with a hyphen and a word character
\* after it, or with "Sent from my " and a word character after it
SigStartFollowedByWord(s) ==
  \/ StartsAt(s, 1, <<"-", "-">>)
  \/ StartsAt(s, 1, <<"_", "_">>)
  \/ StartsAt(s, 1, <<"-">>) /\ Len(s) >= 2 /\ s[2] \in WordChars
  \/ /\ StartsAt(s, 1, SentFromMy)
     /\ Len(s) >= Len(SentFromMy) + 1
     /\ s[Len(SentFromMy) + 1] \in WordChars

\* C17, as claimed: the scan takes a trimmed line for the start of a
\* signature exactly when it starts with "--", with "__", with a hyphen that
\* a word character precedes, or with "Sent from my" and one to three words.
C17_HyphenPrecededByWord ==
  [][\A c \in Calls :
       BlankLineStep(c) =>
         LET f == self(c).fragment[1]
         IN  ClosedAsSignature(c) <=> SigStartAsClaimed(Strip(f.lines[Len(f.lines)]))]_vars

\* C17, amended: the scan takes a trimmed line for the start of a signature
\* exactly when it starts with "--", with "__", with a hyphen that a word
\* character follows, or with "Sent from my " and at least one word
\* character after it, whatever comes after.
C17_HyphenFollowedByWord ==
  [][\A c \in Calls :
       BlankLineStep(c) =>
         LET f == self(c).fragment[1]
         IN  ClosedAsSignature(c) <=> SigStartFollowedByWord(Strip(f.lines[Len(f.lines)]))]_vars

\* the line "-a" below a blank line has been closed as a signature
C17_Witness ==
  \E c \in Calls :
    /\ pc[c] = "replied"
    /\ input[c] = <<NL, "-", "a">>
    /\ \E i \in 1..Len(self(c).fragments) :
         self(c).fragments[i].signature /\ self(c).fragments[i]._content = <<"-", "a">>

\* the line ends with "On", one character or more, and "wrote:", wherever
\* the "On" begins
EndsWithOnWrote(line) ==
  \E i \in 1..Len(line) :
    /\ StartsAt(line, i, On)
    /\ Len(line) >= i + 2 + 1 + Len(Wrote) - 1
    /\ StartsAt(line, Len(line) - Len(Wrote) + 1, Wrote)

\* C18: the scan takes a line for a quote header exactly when the line ends
\* with "On", one character or more, and "wrote:", whatever stands before
\* the "On": a fragment that was just opened has headers = TRUE exactly
\* when its line is such a line or a header line.
C18_QuoteHeaderAnchoredAtEndOnly ==
  \A c \in Calls :
    /\ pc[c] = "scan"
    /\ self(c).fragment # <<>>
    /\ Len(self(c).fragment[1].lines) = 1
    => LET line == self(c).fragment[1].lines[1]
       IN  self(c).fragment[1].headers <=> (EndsWithOnWrote(line) \/ HEADER_REGEX(line))

\* a fragment of plain text that is not empty: not quoted, not headers, not
\* a signature
PlainFragment(f) ==
  ~f.quoted /\ ~f.headers /\ ~f.signature /\ Len(Strip(f._content)) > 0

\* C19: at every point of read(), found_visible is false exactly when every
\* fragment of the list is hidden, and it is true exactly when the list
\* holds a fragment of plain text that is not hidden.
C19_FoundVisibleIffSomeVisible ==
  \A c \in Calls :
    LET fr == self(c).fragments
    IN  /\ ~self(c).found_visible <=> \A i \in 1..Len(fr) : fr[i].hidden
        /\ self(c).found_visible <=>
             \E i \in 1..Len(fr) : ~fr[i].hidden /\ PlainFragment(fr[i])

\* in the middle of the scan found_visible is false again after it was
\* true: a fragment of plain text is in the list, hidden by a headers
\* fragment above it
C19_Witness ==
  \E c \in Calls :
    /\ pc[c] = "scan"
    /\ idx[c] <= Len(self(c).lines)
    /\ ~self(c).found_visible
    /\ \E i \in 1..Len(self(c).fragments) :
         self(c).fragments[i].hidden /\ PlainFragment(self(c).fragments[i])

\* C20, as claimed: in the list that read() returns every signature fragment
\* is hidden, wherever it stands.
C20_SignatureAlwaysHidden ==
  \A c \in Calls :
    Returned(c) =>
      \A i \in 1..Len(self(c).fragments) :
        self(c).fragments[i].signature => self(c).fragments[i].hidden

\* C20, amended: in the list that read() returns a signature fragment is
\* hidden unless a fragment of plain text that is not hidden stands below
\* it; a signature with no visible text below it is never in the reply.
C20_TrailingSignatureHidden ==
  \A c \in Calls :
    Returned(c) =>
      LET fr == self(c).fragments
      IN  \A i \in 1..Len(fr) :
            fr[i].signature /\ ~fr[i].hidden =>
              \E j \in (i + 1)..Len(fr) : ~fr[j].hidden /\ PlainFragment(fr[j])

\* a hidden signature fragment with visible text above it and a quoted
\* fragment below it
C20_Witness ==
  \E c \in Calls :
    /\ pc[c] = "replied"
    /\ result[c] # <<>>
    /\ \E i, j, k \in 1..Len(self(c).fragments) :
         /\ i < j /\ j < k
         /\ ~self(c).fragments[i].hidden /\ PlainFragment(self(c).fragments[i])
         /\ self(c).fragments[j].signature /\ self(c).fragments[j].hidden
         /\ self(c).fragments[k].quoted
====
